---- MODULE Spec2Model ----
(***************************************************************************)
(* Model of the Lingua Franca skill backend (AlexaLanguageLearn).          *)
(* Two handler files exist in the repository: src/index.js and an earlier  *)
(* one, src/unnamed/part_000.  One of them is deployed; `deployed' says     *)
(* which.  A turn is one invocation of a handler in one session; the        *)
(* remote services answer in separate steps.                                *)
(*                                                                         *)
(* Strings are sequences of one-character strings.                         *)
(***************************************************************************)
EXTENDS Integers, Sequences, FiniteSets, TLC

\* ------------------------------------------------------------------ bounds
\* largest number of records the history table holds in a run
MaxRecords == 1
\* longest sentence slot value the validator is tried on
MaxLen == 3

\* ------------------------------------------------------------ vocabulary
chinese    == <<"c","h","i","n","e","s","e">>
french     == <<"f","r","e","n","c","h">>
german     == <<"g","e","r","m","a","n">>
italian    == <<"i","t","a","l","i","a","n">>
portuguese == <<"p","o","r","t","u","g","u","e","s","e">>
russian    == <<"r","u","s","s","i","a","n">>
spanish    == <<"s","p","a","n","i","s","h">>
turkish    == <<"t","u","r","k","i","s","h">>
english    == <<"e","n","g","l","i","s","h">>
latin      == <<"l","a","t","i","n">>
klingon    == <<"k","l","i","n","g","o","n">>
French     == <<"F","r","e","n","c","h">>
hi         == <<"h","i">>
Hi         == <<"H","i">>
xyz        == <<"x","y","z">>

Undefined == "undefined"

supportedLangs ==
  {chinese, french, german, italian, portuguese, russian, spanish, turkish}

langShortForms(l) ==
  CASE l = chinese    -> "zh"
    [] l = french     -> "fr"
    [] l = german     -> "de"
    [] l = italian    -> "it"
    [] l = portuguese -> "pt"
    [] l = russian    -> "ru"
    [] l = spanish    -> "es"
    [] l = turkish    -> "tr"
    [] OTHER          -> Undefined

langPollyVoices(c) ==
  CASE c = "zh" -> "Zhiyu"
    [] c = "fr" -> "Mathieu"
    [] c = "de" -> "Hans"
    [] c = "it" -> "Giorgio"
    [] c = "pt" -> "Ricardo"
    [] c = "ru" -> "Maxim"
    [] c = "es" -> "Enrique"
    [] c = "tr" -> "Filiz"
    [] OTHER    -> Undefined

\* the part of the english word list the inputs of the model can hit
wordlist == {hi, <<"a">>, <<"h">>, english, latin}

\* ------------------------------------------------------ string functions
Whitespace == {" ", "\t"}
LowerCase  == {"a","b","c","d","e","f","g","h","i","j","k","l","m",
               "n","o","p","q","r","s","t","u","v","w","x","y","z"}
UpperCase  == {"A","F","H"}
Digits     == {"1"}

toLowerCaseChar(c) ==
  CASE c = "A" -> "a"
    [] c = "F" -> "f"
    [] c = "H" -> "h"
    [] OTHER   -> c

toLowerCase(str) == [i \in 1..Len(str) |-> toLowerCaseChar(str[i])]

\* str.replace(/[^\w\s]|_/g, ""): drops every character that is neither a
\* word character nor whitespace, and every underscore
isKept(c) == c \in LowerCase \cup UpperCase \cup Digits \cup Whitespace

stripPunctuation(str) == SelectSeq(str, isKept)

\* str.replace(/\s+/g, " "): every maximal run of whitespace becomes one " "
RECURSIVE collapseWhitespace(_)
collapseWhitespace(str) ==
  IF str = <<>> THEN <<>>
  ELSE IF Head(str) \in Whitespace
       THEN IF Len(str) > 1 /\ str[2] \in Whitespace
            THEN collapseWhitespace(Tail(str))
            ELSE <<" ">> \o collapseWhitespace(Tail(str))
       ELSE <<Head(str)>> \o collapseWhitespace(Tail(str))

\* split as it would be if it left out empty pieces
RECURSIVE splitSkippingEmpty(_)
splitSkippingEmpty(str) ==
  IF str = <<>> THEN <<>>
  ELSE IF \A i \in 1..Len(str) : str[i] # " " THEN <<str>>
  ELSE LET k == CHOOSE i \in 1..Len(str) :
                  str[i] = " " /\ \A j \in 1..(i-1) : str[j] # " "
       IN  (IF k = 1 THEN <<>> ELSE <<SubSeq(str, 1, k-1)>>)
             \o splitSkippingEmpty(SubSeq(str, k+1, Len(str)))

\* str.split(" "): the pieces between the spaces; "" splits into [""]
RECURSIVE split(_)
split(str) ==
  IF \A i \in 1..Len(str) : str[i] # " " THEN <<str>>
  ELSE LET k == CHOOSE i \in 1..Len(str) :
                  str[i] = " " /\ \A j \in 1..(i-1) : str[j] # " "
       IN  <<SubSeq(str, 1, k-1)>> \o split(SubSeq(str, k+1, Len(str)))

normalizedWords(sentence) ==
  split(toLowerCase(collapseWhitespace(stripPunctuation(sentence))))

validateSentence(sentence) ==
  LET words == normalizedWords(sentence)
  IN  \A word \in 1..Len(words) :
        ~(words[word] \notin wordlist /\ words[word] \notin supportedLangs)


\* ------------------------------------------------------------------ state
\* conversation sessions, each with its own user
Sessions == {"s1", "s2"}

userId(s) == IF s = "s1" THEN "u1" ELSE "u2"

\* slot values the turns of the model are started with
Sentences          == {hi, xyz}
HandlerLanguages   == {french}
SlotLanguages      == {French, klingon}
Answers            == {hi, Hi}

VARIABLES
  deployed,    \* which handler file is the deployed one
  turn,        \* per session: the turn in flight or the last finished one
  attributes,  \* per session: this.attributes.randomItem, <<>> when undefined
  table,       \* AlexaLanguageLearn-QuizTable, in order of insertion
  tempMp3      \* the object under key temp.mp3, <<>> when none

vars == <<deployed, turn, attributes, table, tempMp3>>

\* responses
MsgNotEnglish     == "Your sentence contains some words not found in international English."
MsgTranslateError == "There was a translation error, please try again."
MsgDatabaseError  == "A database error occured, please try again."
MsgSpeechError    == "There was a text-to-speech error, please try again."
MsgFileSaveError  == "There was a file save error, please try again."
MsgAudioFileError == "An audio file error occured, please try again."
MsgUnknownError   == "There was an unknown error during the process, please try again."
MsgThePhrase      == "The phrase ... in ... is: <audio/>"
MsgInvalidLang    == "This language is invalid."
MsgEnglish        == "Translating from English to English is not necessary."
MsgNotSupported   == "This language is not supported by this skill."
MsgCatchOld       == "There was a translation error."
MsgQuizBadLang    == "You have entered an invalid or unsupported language. Please try another one."
MsgNoHistory      == "You have never asked for any translations in this language. Please try another one."
MsgWhatIs         == "What is <audio/>, in ..., mean?"
MsgCorrect        == "Your answer is correct!"
MsgWrong          == "Your answer is wrong. The correct answer is: ..."
MsgWrongOld       == "Your answer is wrong"
MsgQuizEnglish    == "Quizzing you on English is not necessary."
MsgFact           == "<a fact>"

Location == "https://alexalanguagelearn-bucket/temp.mp3"

\* entries of a turn's log
EmitEv(type, msg, sentence, language, loc) ==
  [ev |-> "emit", what |-> type, msg |-> msg,
   sentence |-> sentence, language |-> language, loc |-> loc]
Tell(msg)         == EmitEv(":tell", msg, <<>>, <<>>, Undefined)
CallEv(svc, args) == [ev |-> "call", what |-> svc, args |-> args]
RetEv(svc, ok)    == [ev |-> "return", what |-> svc, ok |-> ok]
ThrowEv(what)     == [ev |-> "throw", what |-> what]

IdleTurn ==
  [kind |-> "none", pc |-> "idle", sentence |-> <<>>, language |-> <<>>,
   answer |-> <<>>, log |-> <<>>, translatedText |-> <<>>,
   targetCode |-> Undefined, audio |-> <<>>, randomItem |-> <<>>,
   follows |-> "none", played |-> <<>>, posed |-> {}]

Init ==
  /\ deployed \in {"index.js", "part_000"}
  /\ turn = [s \in Sessions |-> IdleTurn]
  /\ attributes = [s \in Sessions |-> <<>>]
  /\ table = <<>>
  /\ tempMp3 = <<>>

Free(s) == turn[s].pc \in {"idle", "done"}

\* translate turns that may still add a record
PendingPuts ==
  Cardinality({s \in Sessions : turn[s].pc \in {"translateText", "putItem"}})

\* ------------------------------------------------------- remote services
\* what the translation service answers for a text and a target code
Translation(text, code) == <<code>> \o text

\* the TargetLanguageCode of the service's response: the code of the
\* request, or another one
ReturnedCodes(code) == {code, "es"}

\* uuid/v4: an identifier no stored record has
uuidv4(s) == <<userId(s), Len(table)>>

\* Item as it would be with the phrase and its translation interchanged
ItemInterchanged(s, language, sentence, translation) ==
  [allqt_sentence_id |-> uuidv4(s), allqt_language |-> language,
   allqt_sentence |-> translation, allqt_translation |-> sentence,
   allqt_user |-> userId(s)]

Item(s, language, sentence, translation) ==
  [allqt_sentence_id |-> uuidv4(s), allqt_language |-> language,
   allqt_sentence |-> sentence, allqt_translation |-> translation,
   allqt_user |-> userId(s)]

\* ---------------------------------------------------- translate pipeline
\* the promise chain up to the call of translateText
startPipeline(s, sentence, language, log) ==
  /\ turn' = [turn EXCEPT ![s] =
       [IdleTurn EXCEPT
          !.posed = turn[s].posed,
          !.kind = "translate", !.pc = "translateText",
          !.sentence = sentence, !.language = language,
          !.log = Append(log, CallEv("translateText",
                    [TargetLanguageCode |-> langShortForms(language),
                     Text |-> sentence]))]]
  /\ UNCHANGED <<deployed, attributes, table, tempMp3>>

\* failPipeline as it would be without the catch at the end of the chain
failPipelineNoCatch(s, svc, stageMsgs, catchMsg) ==
  turn' = [turn EXCEPT ![s].pc = "done",
             ![s].log = (@ \o <<RetEv(svc, FALSE)>>) \o stageMsgs]

\* a rejected chain ends in the catch, which tells catchMsg; stageMsgs are
\* the responses the failing callback emitted before it rejected
failPipeline(s, svc, stageMsgs, catchMsg) ==
  turn' = [turn EXCEPT ![s].pc = "done",
             ![s].log = (@ \o <<RetEv(svc, FALSE)>>) \o stageMsgs
                           \o <<Tell(catchMsg)>>]

\* translateText answered; on success the next then() calls putItem.  A
\* request without a target code is one the service only answers with an
\* error.
onTranslateText(s, ok, stageMsgs, catchMsg) ==
  /\ turn[s].kind = "translate" /\ turn[s].pc = "translateText"
  /\ ok => langShortForms(turn[s].language) # Undefined
  /\ IF ok
     THEN \E code \in ReturnedCodes(langShortForms(turn[s].language)) :
          LET text == Translation(turn[s].sentence,
                                  langShortForms(turn[s].language))
          IN turn' = [turn EXCEPT
               ![s].pc = "putItem",
               ![s].translatedText = text,
               ![s].targetCode = code,
               ![s].log = @ \o <<RetEv("translateText", TRUE),
                   CallEv("putItem",
                     Item(s, turn[s].language, turn[s].sentence, text))>>]
     ELSE failPipeline(s, "translateText", stageMsgs, catchMsg)
  /\ UNCHANGED <<deployed, attributes, table, tempMp3>>

\* onPutItem as it would be if the callback resolved on an error as well
onPutItemResolvesOnError(s, ok, stageMsgs, catchMsg) ==
  /\ turn[s].kind = "translate" /\ turn[s].pc = "putItem"
  /\ table' = IF ok THEN Append(table, turn[s].log[Len(turn[s].log)].args)
               ELSE table
  /\ turn' = [turn EXCEPT
       ![s].pc = "synthesizeSpeech",
       ![s].log = @ \o <<RetEv("putItem", ok),
           CallEv("synthesizeSpeech",
             [Text |-> turn[s].translatedText,
              VoiceId |-> langPollyVoices(turn[s].targetCode)])>>]
  /\ UNCHANGED <<deployed, attributes, tempMp3>>

\* onPutItem as it would be if the voice were looked up by the language
\* of the request
onPutItemVoiceOfLanguage(s, ok, stageMsgs, catchMsg) ==
  /\ turn[s].kind = "translate" /\ turn[s].pc = "putItem"
  /\ IF ok
     THEN /\ table' = Append(table, turn[s].log[Len(turn[s].log)].args)
          /\ turn' = [turn EXCEPT
               ![s].pc = "synthesizeSpeech",
               ![s].log = @ \o <<RetEv("putItem", TRUE),
                   CallEv("synthesizeSpeech",
                     [Text |-> turn[s].translatedText,
                      VoiceId |-> langPollyVoices(
                                    langShortForms(turn[s].language))])>>]
     ELSE /\ failPipeline(s, "putItem", stageMsgs, catchMsg)
          /\ table' = table
  /\ UNCHANGED <<deployed, attributes, tempMp3>>

\* putItem answered; on success the record is in the table and the next
\* then() calls synthesizeSpeech
onPutItem(s, ok, stageMsgs, catchMsg) ==
  /\ turn[s].kind = "translate" /\ turn[s].pc = "putItem"
  /\ IF ok
     THEN /\ table' = Append(table, turn[s].log[Len(turn[s].log)].args)
          /\ turn' = [turn EXCEPT
               ![s].pc = "synthesizeSpeech",
               ![s].log = @ \o <<RetEv("putItem", TRUE),
                   CallEv("synthesizeSpeech",
                     [Text |-> turn[s].translatedText,
                      VoiceId |-> langPollyVoices(turn[s].targetCode)])>>]
     ELSE /\ failPipeline(s, "putItem", stageMsgs, catchMsg)
          /\ table' = table
  /\ UNCHANGED <<deployed, attributes, tempMp3>>

\* synthesizeSpeech answered: an error, or a speech whose AudioStream is a
\* Buffer or is not; a Buffer goes to upload, anything else rejects
onSynthesizeSpeech(s, ok, isBuffer, stageMsgs, notBufferMsgs, catchMsg) ==
  /\ turn[s].kind = "translate" /\ turn[s].pc = "synthesizeSpeech"
  /\ IF ok /\ isBuffer
     THEN LET speech == [by |-> s,
                         of |-> turn[s].log[Len(turn[s].log)].args]
          IN turn' = [turn EXCEPT
               ![s].pc = "upload",
               ![s].audio = <<speech>>,
               ![s].log = @ \o <<RetEv("synthesizeSpeech", TRUE),
                   CallEv("upload", [Key |-> "temp.mp3", Body |-> speech])>>]
     ELSE IF ok
     THEN turn' = [turn EXCEPT ![s].pc = "done",
               ![s].log = (@ \o <<RetEv("synthesizeSpeech", TRUE)>>)
                            \o notBufferMsgs \o <<Tell(catchMsg)>>]
     ELSE failPipeline(s, "synthesizeSpeech", stageMsgs, catchMsg)
  /\ UNCHANGED <<deployed, attributes, table, tempMp3>>

\* S3Store as it would be if every turn had a key of its own: the object
\* of a turn that has not answered yet stays
S3StoreOwnKey(s) ==
  /\ turn[s].pc = "upload"
  /\ tempMp3' = IF \E o \in Sessions \ {s} : turn[o].pc = "uploaded"
                THEN tempMp3 ELSE turn[s].audio
  /\ turn' = [turn EXCEPT ![s].pc = "uploaded"]
  /\ UNCHANGED <<deployed, attributes, table>>

\* the object store writes the body under the fixed key; `played' of a
\* turn is the object its response refers to at the time it is emitted
S3Store(s) ==
  /\ turn[s].pc = "upload"
  /\ tempMp3' = turn[s].audio
  /\ turn' = [turn EXCEPT ![s].pc = "uploaded"]
  /\ UNCHANGED <<deployed, attributes, table>>

\* upload answered; on success the last then() tells the phrase
onUpload(s, ok, stageMsgs, catchMsg) ==
  /\ turn[s].kind = "translate"
  /\ IF ok
     THEN /\ turn[s].pc = "uploaded"
          /\ turn' = [turn EXCEPT ![s].pc = "done",
               ![s].played = tempMp3,
               ![s].log = @ \o <<RetEv("upload", TRUE),
                   EmitEv(":tell", MsgThePhrase, turn[s].sentence,
                          turn[s].language, Location)>>]
     ELSE /\ turn[s].pc = "upload"
          /\ failPipeline(s, "upload", stageMsgs, catchMsg)
  /\ UNCHANGED <<deployed, attributes, table, tempMp3>>

\* src/index.js -------------------------------------------------------
translateSentence(s, sentence, language) ==
  /\ deployed = "index.js"
  /\ Free(s)
  /\ Len(table) + PendingPuts < MaxRecords
  /\ startPipeline(s, sentence, language,
       IF ~validateSentence(sentence) THEN <<Tell(MsgNotEnglish)>> ELSE <<>>)

translateTextCallback(s, ok) ==
  /\ deployed = "index.js"
  /\ onTranslateText(s, ok, <<Tell(MsgTranslateError)>>, MsgUnknownError)

putItemCallback(s, ok) ==
  /\ deployed = "index.js"
  /\ onPutItem(s, ok, <<Tell(MsgDatabaseError)>>, MsgUnknownError)

synthesizeSpeechCallback(s, ok, isBuffer) ==
  /\ deployed = "index.js"
  /\ onSynthesizeSpeech(s, ok, isBuffer, <<Tell(MsgSpeechError)>>,
                        <<Tell(MsgAudioFileError)>>, MsgUnknownError)

uploadCallback(s, ok) ==
  /\ deployed = "index.js"
  /\ onUpload(s, ok, <<Tell(MsgFileSaveError)>>, MsgUnknownError)

\* src/unnamed/part_000 ----------------------------------------------
languageChecks(language, englishMsg) ==
  IF ~validateSentence(language) THEN <<Tell(MsgInvalidLang)>>
  ELSE IF language = english THEN <<Tell(englishMsg)>>
  ELSE IF langShortForms(language) = Undefined THEN <<Tell(MsgNotSupported)>>
  ELSE <<>>

TranslateIntent(s, sentence, slotLanguage) ==
  /\ deployed = "part_000"
  /\ Free(s)
  /\ Len(table) + PendingPuts < MaxRecords
  /\ LET language == toLowerCase(slotLanguage)
     IN startPipeline(s, sentence, language,
          (IF ~validateSentence(sentence) THEN <<Tell(MsgNotEnglish)>>
           ELSE <<>>) \o languageChecks(language, MsgEnglish))

translateTextCallbackOld(s, ok) ==
  /\ deployed = "part_000"
  /\ onTranslateText(s, ok, <<>>, MsgCatchOld)

putItemCallbackOld(s, ok) ==
  /\ deployed = "part_000"
  /\ onPutItem(s, ok, <<>>, MsgCatchOld)

synthesizeSpeechCallbackOld(s, ok, isBuffer) ==
  /\ deployed = "part_000"
  /\ onSynthesizeSpeech(s, ok, isBuffer, <<>>, <<>>, MsgCatchOld)

uploadCallbackOld(s, ok) ==
  /\ deployed = "part_000"
  /\ onUpload(s, ok, <<>>, MsgCatchOld)

\* ------------------------------------------------------------------ quiz
\* the rows of the table the scan's filter expression lets through
isMatch(item, language, user) ==
  item.allqt_language = language /\ item.allqt_user = user

scanResults(language, user) ==
  LET keep(item) == isMatch(item, language, user)
  IN  SelectSeq(table, keep)

\* a chain without a catch: the rejection is handled nowhere
Unhandled == ThrowEv("unhandledRejection")

\* Phase A up to the call of scan
startQuiz(s, language, log) ==
  /\ turn' = [turn EXCEPT ![s] =
       [IdleTurn EXCEPT
          !.posed = turn[s].posed,
          !.kind = "quiz", !.pc = "scan", !.language = language,
          !.log = Append(log, CallEv("scan",
                    [l |-> language, u |-> userId(s)]))]]
  /\ UNCHANGED <<deployed, attributes, table, tempMp3>>

\* checkAnswer as it would be if the comparison ignored the case of letters
checkAnswerIgnoringCase(s, answer, wrongMsg) ==
  /\ turn' = [turn EXCEPT ![s] =
       [IdleTurn EXCEPT
          !.posed = turn[s].posed,
          !.kind = "answer", !.pc = "done", !.answer = answer,
          !.follows = IF turn[s].log # <<>>
                         /\ turn[s].log[Len(turn[s].log)].ev = "emit"
                      THEN turn[s].log[Len(turn[s].log)].what ELSE "none",
          !.log = IF attributes[s] = <<>>
                  THEN <<ThrowEv("TypeError")>>
                  ELSE IF toLowerCase(answer)
                            = toLowerCase(attributes[s][1].allqt_sentence)
                  THEN <<Tell(MsgCorrect)>>
                  ELSE <<Tell(wrongMsg)>>]]
  /\ UNCHANGED <<deployed, attributes, table, tempMp3>>

\* how the turn before this one ended in the session: with a question
\* (:elicitSlot) or otherwise
lastResponse(s) ==
  LET log == turn[s].log
  IN  IF log # <<>> /\ log[Len(log)].ev = "emit"
      THEN log[Len(log)].what ELSE "none"

\* Phase B: the answer against the pending record
checkAnswer(s, answer, wrongMsg) ==
  /\ turn' = [turn EXCEPT ![s] =
       [IdleTurn EXCEPT
          !.posed = turn[s].posed,
          !.kind = "answer", !.pc = "done", !.answer = answer,
          !.follows = lastResponse(s),
          !.log = IF attributes[s] = <<>>
                  THEN <<ThrowEv("TypeError")>>
                  ELSE IF answer = attributes[s][1].allqt_sentence
                  THEN <<Tell(MsgCorrect)>>
                  ELSE <<Tell(wrongMsg)>>]]
  /\ UNCHANGED <<deployed, attributes, table, tempMp3>>

\* onScan as it would be if the scan took the picked row out of the table
onScanTakesRow(s, ok, i, emptyMsgs) ==
  /\ turn[s].kind = "quiz" /\ turn[s].pc = "scan"
  /\ LET results == scanResults(turn[s].language, userId(s))
         Count   == Len(results)
     IN IF ~ok
        THEN /\ turn' = [turn EXCEPT ![s].pc = "done",
                  ![s].log = @ \o <<RetEv("scan", FALSE), Unhandled>>]
             /\ attributes' = attributes
             /\ table' = table
        ELSE IF Count = 0
        THEN /\ turn' = [turn EXCEPT ![s].pc = "done",
                  ![s].log = (@ \o <<RetEv("scan", TRUE)>>) \o emptyMsgs
                                \o <<Unhandled>>]
             /\ attributes' = [attributes EXCEPT ![s] = <<>>]
             /\ table' = table
        ELSE /\ i \in 1..Count
             /\ LET randomItem == results[i]
                IN /\ attributes' = [attributes EXCEPT ![s] = <<randomItem>>]
                   /\ table' = SelectSeq(table, LAMBDA item : item # randomItem)
                   /\ turn' = [turn EXCEPT
                        ![s].pc = "synthesizeSpeech",
                        ![s].randomItem = <<randomItem>>,
                        ![s].log = @ \o <<RetEv("scan", TRUE),
                          CallEv("synthesizeSpeech",
                            [Text |-> randomItem.allqt_translation,
                             VoiceId |-> langPollyVoices(langShortForms(
                               toLowerCase(randomItem.allqt_language)))])>>]
  /\ UNCHANGED <<deployed, tempMp3>>

\* onScan as it would be if the pending record were kept in one place for
\* all sessions
onScanSharedPending(s, ok, i, emptyMsgs) ==
  /\ turn[s].kind = "quiz" /\ turn[s].pc = "scan"
  /\ LET results == scanResults(turn[s].language, userId(s))
         Count   == Len(results)
     IN IF ~ok
        THEN /\ turn' = [turn EXCEPT ![s].pc = "done",
                  ![s].log = @ \o <<RetEv("scan", FALSE), Unhandled>>]
             /\ attributes' = attributes
        ELSE IF Count = 0
        THEN /\ turn' = [turn EXCEPT ![s].pc = "done",
                  ![s].log = (@ \o <<RetEv("scan", TRUE)>>) \o emptyMsgs
                                \o <<Unhandled>>]
             /\ attributes' = [attributes EXCEPT ![s] = <<>>]
        ELSE /\ i \in 1..Count
             /\ LET randomItem == results[i]
                IN /\ attributes' = [o \in Sessions |-> <<randomItem>>]
                   /\ turn' = [turn EXCEPT
                        ![s].pc = "synthesizeSpeech",
                        ![s].randomItem = <<randomItem>>,
                        ![s].log = @ \o <<RetEv("scan", TRUE),
                          CallEv("synthesizeSpeech",
                            [Text |-> randomItem.allqt_translation,
                             VoiceId |-> langPollyVoices(langShortForms(
                               toLowerCase(randomItem.allqt_language)))])>>]
  /\ UNCHANGED <<deployed, table, tempMp3>>

\* scan answered; emptyMsgs is what the callback emits on a count of 0.
\* The picked row (undefined when there is none) becomes the pending
\* record, and reading a field of undefined rejects the chain.
onScan(s, ok, i, emptyMsgs) ==
  /\ turn[s].kind = "quiz" /\ turn[s].pc = "scan"
  /\ LET results == scanResults(turn[s].language, userId(s))
         Count   == Len(results)
     IN IF ~ok
        THEN /\ turn' = [turn EXCEPT ![s].pc = "done",
                  ![s].log = @ \o <<RetEv("scan", FALSE), Unhandled>>]
             /\ attributes' = attributes
        ELSE IF Count = 0
        THEN /\ turn' = [turn EXCEPT ![s].pc = "done",
                  ![s].log = (@ \o <<RetEv("scan", TRUE)>>) \o emptyMsgs
                                \o <<Unhandled>>]
             /\ attributes' = [attributes EXCEPT ![s] = <<>>]
        ELSE /\ i \in 1..Count
             /\ LET randomItem == results[i]
                IN /\ attributes' = [attributes EXCEPT ![s] = <<randomItem>>]
                   /\ turn' = [turn EXCEPT
                        ![s].pc = "synthesizeSpeech",
                        ![s].randomItem = <<randomItem>>,
                        ![s].log = @ \o <<RetEv("scan", TRUE),
                          CallEv("synthesizeSpeech",
                            [Text |-> randomItem.allqt_translation,
                             VoiceId |-> langPollyVoices(langShortForms(
                               toLowerCase(randomItem.allqt_language)))])>>]
  /\ UNCHANGED <<deployed, table, tempMp3>>

onQuizSynthesizeSpeech(s, ok, isBuffer) ==
  /\ turn[s].kind = "quiz" /\ turn[s].pc = "synthesizeSpeech"
  /\ IF ok /\ isBuffer
     THEN LET speech == [by |-> s,
                         of |-> turn[s].log[Len(turn[s].log)].args]
          IN turn' = [turn EXCEPT
               ![s].pc = "upload",
               ![s].audio = <<speech>>,
               ![s].log = @ \o <<RetEv("synthesizeSpeech", TRUE),
                   CallEv("upload", [Key |-> "temp.mp3", Body |-> speech])>>]
     ELSE turn' = [turn EXCEPT ![s].pc = "done",
               ![s].log = @ \o <<RetEv("synthesizeSpeech", ok), Unhandled>>]
  /\ UNCHANGED <<deployed, attributes, table, tempMp3>>

onQuizUpload(s, ok) ==
  /\ turn[s].kind = "quiz"
  /\ IF ok
     THEN /\ turn[s].pc = "uploaded"
          /\ turn' = [turn EXCEPT ![s].pc = "done",
               ![s].played = tempMp3,
               ![s].posed = @ \cup {turn[s].randomItem[1]},
               ![s].log = @ \o <<RetEv("upload", TRUE),
                   EmitEv(":elicitSlot", MsgWhatIs, <<>>,
                          turn[s].language, Location)>>]
     ELSE /\ turn[s].pc = "upload"
          /\ turn' = [turn EXCEPT ![s].pc = "done",
               ![s].log = @ \o <<RetEv("upload", FALSE), Unhandled>>]
  /\ UNCHANGED <<deployed, attributes, table, tempMp3>>

\* src/index.js -------------------------------------------------------
QuizIntent(s, slotLanguage, answer) ==
  /\ deployed = "index.js"
  /\ Free(s)
  /\ IF answer = <<>>
     THEN LET language == toLowerCase(slotLanguage)
          IN startQuiz(s, language,
               IF language \notin supportedLangs
               THEN <<Tell(MsgQuizBadLang)>> ELSE <<>>)
     ELSE checkAnswer(s, answer, MsgWrong)

scanCallback(s, ok, i) ==
  /\ deployed = "index.js"
  /\ onScan(s, ok, i, <<Tell(MsgNoHistory)>>)

quizSynthesizeSpeechCallback(s, ok, isBuffer) ==
  /\ deployed = "index.js"
  /\ onQuizSynthesizeSpeech(s, ok, isBuffer)

quizUploadCallback(s, ok) ==
  /\ deployed = "index.js"
  /\ onQuizUpload(s, ok)

\* src/unnamed/part_000 ----------------------------------------------
QuizIntentOld(s, slotLanguage, answer) ==
  /\ deployed = "part_000"
  /\ Free(s)
  /\ IF answer = <<>>
     THEN LET language == toLowerCase(slotLanguage)
          IN startQuiz(s, language, languageChecks(language, MsgQuizEnglish))
     ELSE checkAnswer(s, answer, MsgWrongOld)

scanCallbackOld(s, ok, i) ==
  /\ deployed = "part_000"
  /\ onScan(s, ok, i, <<>>)

quizSynthesizeSpeechCallbackOld(s, ok, isBuffer) ==
  /\ deployed = "part_000"
  /\ onQuizSynthesizeSpeech(s, ok, isBuffer)

quizUploadCallbackOld(s, ok) ==
  /\ deployed = "part_000"
  /\ onQuizUpload(s, ok)

\* ------------------------------------------------------------------ fact
\* language_facts.json has a list of facts for every supported language
langFacts(language) ==
  IF language \in supportedLangs THEN <<MsgFact>> ELSE Undefined

FactIntent(s, slotLanguage) ==
  /\ Free(s)
  /\ LET language == toLowerCase(slotLanguage)
         first == IF language = english THEN <<Tell(MsgQuizEnglish)>>
                  ELSE IF langShortForms(language) = Undefined
                  THEN <<Tell(MsgNotSupported)>>
                  ELSE <<>>
         factBank == langFacts(language)
     IN turn' = [turn EXCEPT ![s] =
          [IdleTurn EXCEPT
             !.posed = turn[s].posed,
             !.kind = "fact", !.pc = "done", !.language = language,
             !.log = first \o
               (IF factBank = Undefined THEN <<ThrowEv("TypeError")>>
                ELSE <<Tell(factBank[1])>>)]]
  /\ UNCHANGED <<deployed, attributes, table, tempMp3>>

\* ------------------------------------------------------- specifications
Next ==
  \/ \E s \in Sessions, sentence \in Sentences, language \in HandlerLanguages :
       translateSentence(s, sentence, language)
  \/ \E s \in Sessions, ok \in BOOLEAN : translateTextCallback(s, ok)
  \/ \E s \in Sessions, ok \in BOOLEAN : putItemCallback(s, ok)
  \/ \E s \in Sessions, ok \in BOOLEAN, isBuffer \in BOOLEAN :
       synthesizeSpeechCallback(s, ok, isBuffer)
  \/ \E s \in Sessions, ok \in BOOLEAN : uploadCallback(s, ok)
  \/ \E s \in Sessions, sentence \in Sentences, language \in SlotLanguages :
       TranslateIntent(s, sentence, language)
  \/ \E s \in Sessions, ok \in BOOLEAN : translateTextCallbackOld(s, ok)
  \/ \E s \in Sessions, ok \in BOOLEAN : putItemCallbackOld(s, ok)
  \/ \E s \in Sessions, ok \in BOOLEAN, isBuffer \in BOOLEAN :
       synthesizeSpeechCallbackOld(s, ok, isBuffer)
  \/ \E s \in Sessions, ok \in BOOLEAN : uploadCallbackOld(s, ok)
  \/ \E s \in Sessions : S3Store(s)
  \/ \E s \in Sessions, language \in SlotLanguages, answer \in Answers \cup {<<>>} :
       QuizIntent(s, language, answer)
  \/ \E s \in Sessions, ok \in BOOLEAN, i \in 1..MaxRecords : scanCallback(s, ok, i)
  \/ \E s \in Sessions, ok \in BOOLEAN, isBuffer \in BOOLEAN :
       quizSynthesizeSpeechCallback(s, ok, isBuffer)
  \/ \E s \in Sessions, ok \in BOOLEAN : quizUploadCallback(s, ok)
  \/ \E s \in Sessions, language \in SlotLanguages, answer \in Answers \cup {<<>>} :
       QuizIntentOld(s, language, answer)
  \/ \E s \in Sessions, ok \in BOOLEAN, i \in 1..MaxRecords : scanCallbackOld(s, ok, i)
  \/ \E s \in Sessions, ok \in BOOLEAN, isBuffer \in BOOLEAN :
       quizSynthesizeSpeechCallbackOld(s, ok, isBuffer)
  \/ \E s \in Sessions, ok \in BOOLEAN : quizUploadCallbackOld(s, ok)
  \/ \E s \in Sessions, language \in SlotLanguages : FactIntent(s, language)

Spec == Init /\ [][Next]_vars

\* the translate pipeline alone, with every remote call answered in the end
NextTranslate ==
  \/ \E s \in Sessions, sentence \in Sentences, language \in HandlerLanguages :
       translateSentence(s, sentence, language)
  \/ \E s \in Sessions, ok \in BOOLEAN : translateTextCallback(s, ok)
  \/ \E s \in Sessions, ok \in BOOLEAN : putItemCallback(s, ok)
  \/ \E s \in Sessions, ok \in BOOLEAN, isBuffer \in BOOLEAN :
       synthesizeSpeechCallback(s, ok, isBuffer)
  \/ \E s \in Sessions, ok \in BOOLEAN : uploadCallback(s, ok)
  \/ \E s \in Sessions, sentence \in Sentences, language \in SlotLanguages :
       TranslateIntent(s, sentence, language)
  \/ \E s \in Sessions, ok \in BOOLEAN : translateTextCallbackOld(s, ok)
  \/ \E s \in Sessions, ok \in BOOLEAN : putItemCallbackOld(s, ok)
  \/ \E s \in Sessions, ok \in BOOLEAN, isBuffer \in BOOLEAN :
       synthesizeSpeechCallbackOld(s, ok, isBuffer)
  \/ \E s \in Sessions, ok \in BOOLEAN : uploadCallbackOld(s, ok)
  \/ \E s \in Sessions : S3Store(s)

\* a call that was issued is answered: the callback of the stage the turn
\* waits in runs in the end
Answered(s) ==
  \/ \E ok \in BOOLEAN : translateTextCallback(s, ok)
  \/ \E ok \in BOOLEAN : putItemCallback(s, ok)
  \/ \E ok \in BOOLEAN, isBuffer \in BOOLEAN :
       synthesizeSpeechCallback(s, ok, isBuffer)
  \/ \E ok \in BOOLEAN : uploadCallback(s, ok)
  \/ \E ok \in BOOLEAN : translateTextCallbackOld(s, ok)
  \/ \E ok \in BOOLEAN : putItemCallbackOld(s, ok)
  \/ \E ok \in BOOLEAN, isBuffer \in BOOLEAN :
       synthesizeSpeechCallbackOld(s, ok, isBuffer)
  \/ \E ok \in BOOLEAN : uploadCallbackOld(s, ok)

FairTranslate ==
  Init /\ [][NextTranslate]_vars /\ \A s \in Sessions : WF_vars(Answered(s))

\* the quiz alone, in two sessions whose users both have a translation in
\* the table from earlier turns
HistoryTable ==
  <<[allqt_sentence_id |-> <<"u1", 0>>, allqt_language |-> french,
     allqt_sentence |-> hi, allqt_translation |-> Translation(hi, "fr"),
     allqt_user |-> "u1"],
    [allqt_sentence_id |-> <<"u2", 1>>, allqt_language |-> french,
     allqt_sentence |-> hi, allqt_translation |-> Translation(hi, "fr"),
     allqt_user |-> "u2"]>>

InitHistory ==
  /\ deployed \in {"index.js", "part_000"}
  /\ turn = [s \in Sessions |-> IdleTurn]
  /\ attributes = [s \in Sessions |-> <<>>]
  /\ table = HistoryTable
  /\ tempMp3 = <<>>

NextQuiz ==
  \/ \E s \in Sessions : S3Store(s)
  \/ \E s \in Sessions, language \in SlotLanguages, answer \in Answers \cup {<<>>} :
       QuizIntent(s, language, answer)
  \/ \E s \in Sessions, ok \in BOOLEAN, i \in 1..MaxRecords : scanCallback(s, ok, i)
  \/ \E s \in Sessions, ok \in BOOLEAN, isBuffer \in BOOLEAN :
       quizSynthesizeSpeechCallback(s, ok, isBuffer)
  \/ \E s \in Sessions, ok \in BOOLEAN : quizUploadCallback(s, ok)
  \/ \E s \in Sessions, language \in SlotLanguages, answer \in Answers \cup {<<>>} :
       QuizIntentOld(s, language, answer)
  \/ \E s \in Sessions, ok \in BOOLEAN, i \in 1..MaxRecords : scanCallbackOld(s, ok, i)
  \/ \E s \in Sessions, ok \in BOOLEAN, isBuffer \in BOOLEAN :
       quizSynthesizeSpeechCallbackOld(s, ok, isBuffer)
  \/ \E s \in Sessions, ok \in BOOLEAN : quizUploadCallbackOld(s, ok)

QuizSpec == InitHistory /\ [][NextQuiz]_vars

\* the validator alone: a translate request with any short sentence slot
\* value waits in session s1, and the handler takes it
InputChars == {"h", "i", "H", "x", " ", "\t", "!", "_"}

InputStrings == UNION {[1..n -> InputChars] : n \in 0..MaxLen}

InitValidate ==
  /\ deployed \in {"index.js", "part_000"}
  /\ \E str \in InputStrings :
       turn = [s \in Sessions |->
                 IF s = "s1" THEN [IdleTurn EXCEPT !.sentence = str]
                 ELSE IdleTurn]
  /\ attributes = [s \in Sessions |-> <<>>]
  /\ table = <<>>
  /\ tempMp3 = <<>>

NextValidate ==
  \/ \E s \in Sessions :
       turn[s].pc = "idle" /\ translateSentence(s, turn[s].sentence, french)
  \/ \E s \in Sessions :
       turn[s].pc = "idle" /\ TranslateIntent(s, turn[s].sentence, French)

ValidateSpec == InitValidate /\ [][NextValidate]_vars

\* ----------------------------------------------------- reading the logs
IsEmit(e)   == e.ev = "emit"
IsCall(e)   == e.ev = "call"
IsReturn(e) == e.ev = "return"
IsCallOrReturn(e) == e.ev \in {"call", "return"}

Emits(s)   == SelectSeq(turn[s].log, IsEmit)
Calls(s)   == SelectSeq(turn[s].log, IsCall)
Returns(s) == SelectSeq(turn[s].log, IsReturn)

Said(s, msg) == \E i \in 1..Len(Emits(s)) : Emits(s)[i].msg = msg
Called(s, svc) == \E i \in 1..Len(Calls(s)) : Calls(s)[i].what = svc
Failed(s, svc) ==
  \E i \in 1..Len(Returns(s)) :
    Returns(s)[i].what = svc /\ ~Returns(s)[i].ok
Succeeded(s, svc) ==
  \E i \in 1..Len(Returns(s)) :
    Returns(s)[i].what = svc /\ Returns(s)[i].ok

\* ------------------------------------------------------------------ C1
\* C1: a translate turn whose phrase fails the validator emits the
\* rejection message and calls no service.
C1_RejectedPhraseHalts ==
  \A s \in Sessions :
    (turn[s].kind = "translate" /\ ~validateSentence(turn[s].sentence))
      => /\ Said(s, MsgNotEnglish)
         /\ Calls(s) = <<>>

\* ------------------------------------------------------------------ C2
\* C2: every handler invocation emits at most one response.
C2_AtMostOneResponse ==
  \A s \in Sessions : Len(Emits(s)) <= 1

\* ------------------------------------------------------------------ C3
RejectionMsgs ==
  {MsgNotEnglish, MsgInvalidLang, MsgEnglish, MsgNotSupported}
ErrorMsgs ==
  {MsgTranslateError, MsgDatabaseError, MsgSpeechError, MsgFileSaveError,
   MsgAudioFileError, MsgUnknownError, MsgCatchOld}

ValidationFailed(s) ==
  \/ ~validateSentence(turn[s].sentence)
  \/ deployed = "part_000" /\ languageChecks(turn[s].language, MsgEnglish) # <<>>

InFlight(s) == turn[s].kind = "translate" /\ turn[s].pc # "done"

Responded(s) ==
  /\ turn[s].kind = "translate" /\ turn[s].pc = "done"
  /\ Emits(s) # <<>>
  /\ ValidationFailed(s) => \E m \in RejectionMsgs : Said(s, m)
  /\ IF Succeeded(s, "upload")
     THEN Said(s, MsgThePhrase)
     ELSE \E m \in ErrorMsgs : Said(s, m)

\* C3: when every remote call is answered, a translate turn ends with a
\* response: an error message when validation or a stage failed, the
\* phrase with its audio when every stage succeeded.
C3_TranslateTurnResponds ==
  \A s \in Sessions : InFlight(s) ~> Responded(s)

C3_Witness ==
  \E s \in Sessions :
    /\ Responded(s)
    /\ Failed(s, "synthesizeSpeech")

\* ------------------------------------------------------------------ C4
Stages == <<"translateText", "putItem", "synthesizeSpeech", "upload">>

CallsAndReturns(s) == SelectSeq(turn[s].log, IsCallOrReturn)

\* C4: the calls of a translate turn are translate, persist, synthesize,
\* upload in this order, each issued right after the stage before it
\* returned success, and none after a stage returned a failure.
C4_StagesInOrder ==
  \A s \in Sessions :
    turn[s].kind = "translate" =>
      LET cr == CallsAndReturns(s)
      IN \A i \in 1..Len(cr) :
           IsCall(cr[i]) =>
             LET k == Cardinality({j \in 1..i : IsCall(cr[j])})
             IN /\ k <= Len(Stages)
                /\ cr[i].what = Stages[k]
                /\ k = 1 => i = 1
                /\ k > 1 => /\ IsReturn(cr[i-1])
                            /\ cr[i-1].what = Stages[k-1]
                            /\ cr[i-1].ok
                /\ \A j \in 1..(i-1) : IsReturn(cr[j]) => cr[j].ok

C4_Witness ==
  \E s \in Sessions :
    /\ turn[s].kind = "translate" /\ turn[s].pc = "done"
    /\ Succeeded(s, "putItem")
    /\ Failed(s, "synthesizeSpeech")
    /\ ~Called(s, "upload")

\* ------------------------------------------------------------------ C5
Asked(s) ==
  \E i \in 1..Len(Emits(s)) : Emits(s)[i].what = ":elicitSlot"

ScanFoundNothing(s) ==
  /\ turn[s].kind = "quiz"
  /\ Succeeded(s, "scan")
  /\ scanResults(turn[s].language, userId(s)) = <<>>

\* C5: Phase A of the quiz, when the scan finds no record of the user in
\* the language, tells the 'no history' message, calls neither
\* synthesizeSpeech nor upload and asks nothing.
C5_NoHistoryHalts ==
  \A s \in Sessions :
    ScanFoundNothing(s) =>
      /\ Said(s, MsgNoHistory)
      /\ ~Called(s, "synthesizeSpeech")
      /\ ~Called(s, "upload")
      /\ ~Asked(s)

\* ------------------------------------------------------------------ C6
\* C6: a Phase B turn that follows a Phase A turn which ended with its
\* question tells 'correct' exactly when the answer equals the source
\* phrase of the record Phase A picked, and 'wrong' otherwise.
C6_AnswerJudgedAgainstPick ==
  [][\A s \in Sessions :
       (/\ turn[s].kind = "quiz"
        /\ lastResponse(s) = ":elicitSlot"
        /\ turn'[s].kind = "answer")
         => LET source == turn[s].randomItem[1].allqt_sentence
                said   == SelectSeq(turn'[s].log, IsEmit)
            IN /\ Len(said) = 1
               /\ said[1].what = ":tell"
               /\ said[1].msg = MsgCorrect <=> turn'[s].answer = source
               /\ turn'[s].answer # source
                    => said[1].msg \in {MsgWrong, MsgWrongOld}]_vars

C6_Witness ==
  \E s \in Sessions :
    /\ turn[s].kind = "answer"
    /\ turn[s].follows = ":elicitSlot"
    /\ Said(s, MsgCorrect)

\* ------------------------------------------------------------------ C7
\* C7: after a Phase B turn the session has no pending record.
C7_PendingClearedAfterAnswer ==
  \A s \in Sessions :
    (turn[s].kind = "answer" /\ turn[s].pc = "done") => attributes[s] = <<>>

\* ------------------------------------------------------------------ C8
\* C8: Phase A with a language outside the supported set tells the
\* rejection and halts: no scan, no synthesis, no upload, no pending record.
C8_UnsupportedQuizLanguageHalts ==
  \A s \in Sessions :
    (turn[s].kind = "quiz" /\ turn[s].language \notin supportedLangs)
      => /\ \E m \in {MsgQuizBadLang, MsgInvalidLang, MsgNotSupported} :
              Said(s, m)
         /\ Calls(s) = <<>>
         /\ turn[s].randomItem = <<>>

\* ------------------------------------------------------------------ C9
\* C9: Phase A ends with a generic error response, and without a
\* question, when scan, synthesizeSpeech or upload fails.
C9_QuizFailureTellsError ==
  \A s \in Sessions :
    (/\ turn[s].kind = "quiz" /\ turn[s].pc = "done"
     /\ \E svc \in {"scan", "synthesizeSpeech", "upload"} : Failed(s, svc))
      => /\ ~Asked(s)
         /\ LET last == turn[s].log[Len(turn[s].log)]
            IN  last.ev = "emit" /\ last.what = ":tell"

\* ----------------------------------------------------------------- C10
StageMsgs(k) ==
  CASE k = 1 -> {MsgTranslateError, MsgCatchOld}
    [] k = 2 -> {MsgDatabaseError}
    [] k = 3 -> {MsgSpeechError}
    [] k = 4 -> {MsgFileSaveError}

\* the responses of the pipeline: those emitted after the first call
PipelineEmits(s) ==
  LET log   == turn[s].log
      first == CHOOSE i \in 1..Len(log) :
                 IsCall(log[i]) /\ \A j \in 1..(i-1) : ~IsCall(log[j])
  IN  SelectSeq(SubSeq(log, first, Len(log)), IsEmit)

\* C10: when stage k of a translate turn fails, the response is the error
\* message of stage k, and the generic message is the response only when
\* no stage reported the failure.
C10_StageSpecificError ==
  \A s \in Sessions :
    (turn[s].kind = "translate" /\ turn[s].pc = "done") =>
      \A k \in 1..Len(Stages) :
        Failed(s, Stages[k]) =>
          /\ Len(PipelineEmits(s)) = 1
          /\ PipelineEmits(s)[1].msg \in StageMsgs(k)

\* ----------------------------------------------------------------- C11
\* C11: a Phase B turn in a session without a pending record ends with an
\* error response and tells neither 'correct' nor 'wrong'.
C11_AnswerWithoutQuestionIsError ==
  \A s \in Sessions :
    (turn[s].kind = "answer" /\ attributes[s] = <<>>)
      => /\ Emits(s) # <<>>
         /\ \A m \in {MsgCorrect, MsgWrong, MsgWrongOld} : ~Said(s, m)

\* ----------------------------------------------------------------- C12
Translatable(language) ==
  /\ language \in supportedLangs
  /\ language # english
  /\ langShortForms(language) # Undefined

\* C12: translateText is called, and a record is stored, only with a
\* supported language that is not english and has a short code.
C12_OnlySupportedLanguages ==
  /\ \A s \in Sessions :
       Called(s, "translateText") => Translatable(turn[s].language)
  /\ \A i \in 1..Len(table) : Translatable(table[i].allqt_language)

\* ----------------------------------------------------------------- C13
\* C13: every turn uploads under the one key temp.mp3 and answers with the
\* one location; an upload replaces the object also when it is the audio of
\* another turn that has not answered yet, so a response can refer to the
\* audio of the other turn.
C13_UploadsShareOneKey ==
  [][\A s \in Sessions :
       /\ (turn[s].pc = "upload" /\ turn'[s].pc = "uploaded")
            => /\ tempMp3' = turn[s].audio
               /\ turn[s].log[Len(turn[s].log)].args.Key = "temp.mp3"
       /\ (turn[s].pc = "uploaded" /\ turn'[s].pc = "done")
            => /\ turn'[s].log[Len(turn'[s].log)].loc = Location
               /\ turn'[s].played = tempMp3]_vars

C13_Witness ==
  \E s \in Sessions :
    /\ turn[s].pc = "done"
    /\ Emits(s) # <<>>
    /\ Emits(s)[Len(Emits(s))].loc = Location
    /\ turn[s].played # <<>>
    /\ turn[s].played[1].by # s

\* ----------------------------------------------------------------- C14
AllStagesSucceeded(s) ==
  \A k \in 1..Len(Stages) : Succeeded(s, Stages[k])

PhraseResponses(s) ==
  {i \in 1..Len(Emits(s)) : Emits(s)[i].msg = MsgThePhrase}

\* C14: a translate turn tells the phrase with its audio exactly when
\* validation and the four stages succeeded, and the audio reference is
\* the location its upload returned.
C14_PhraseOnlyOnFullSuccess ==
  \A s \in Sessions :
    turn[s].kind = "translate" =>
      /\ PhraseResponses(s) # {}
           => /\ ~ValidationFailed(s)
              /\ AllStagesSucceeded(s)
              /\ \A i \in PhraseResponses(s) : Emits(s)[i].loc = Location
      /\ (turn[s].pc = "done" /\ ~ValidationFailed(s) /\ AllStagesSucceeded(s))
           => PhraseResponses(s) # {}

\* ----------------------------------------------------------------- C15
\* the words of a sentence: the maximal runs without whitespace of the
\* sentence without its punctuation, in lower case
Words(sentence) ==
  LET str == toLowerCase(stripPunctuation(sentence))
      gap(i) == i < 1 \/ i > Len(str) \/ str[i] \in Whitespace
  IN  {SubSeq(str, i, j) : <<i, j>> \in
         {p \in (1..Len(str)) \X (1..Len(str)) :
            /\ p[1] <= p[2]
            /\ \A k \in p[1]..p[2] : ~gap(k)
            /\ gap(p[1] - 1) /\ gap(p[2] + 1)}}

AllWordsKnown(sentence) ==
  \A w \in Words(sentence) : w \in wordlist \cup supportedLangs

\* C15: the validator accepts a sentence exactly when all its words are
\* dictionary words or supported language names, also with whitespace at
\* its ends.
C15_ValidatorAcceptsKnownWords ==
  \A s \in Sessions :
    turn[s].kind = "translate" =>
      (Said(s, MsgNotEnglish) <=> ~AllWordsKnown(turn[s].sentence))

\* ----------------------------------------------------------------- C16
EmptyAfterNormalization(sentence) == stripPunctuation(sentence) = <<>>

SynthesisCalls(s) ==
  {i \in 1..Len(Calls(s)) : Calls(s)[i].what = "synthesizeSpeech"}

\* C19 as claimed: the voice of a translate turn's synthesis call is the
\* voice of the requested language, whatever code the translation returned.
C19_VoiceOfRequestedLanguage ==
  \A s \in Sessions :
    turn[s].kind = "translate" =>
      \A i \in SynthesisCalls(s) :
        Calls(s)[i].args.VoiceId
          = langPollyVoices(langShortForms(turn[s].language))

\* C19 as amended: the voice is the one mapped to the target code the
\* translation service returned, which is the voice of the requested
\* language when the service returned the requested code.
C19_VoiceOfReturnedCode ==
  \A s \in Sessions :
    turn[s].kind = "translate" =>
      \A i \in SynthesisCalls(s) :
        /\ Calls(s)[i].args.VoiceId = langPollyVoices(turn[s].targetCode)
        /\ turn[s].targetCode = langShortForms(turn[s].language)
             => Calls(s)[i].args.VoiceId
                  = langPollyVoices(langShortForms(turn[s].language))

C19_Witness ==
  \E s \in Sessions :
    /\ turn[s].kind = "translate"
    /\ turn[s].language = french
    /\ turn[s].targetCode = "es"
    /\ \E i \in SynthesisCalls(s) : Calls(s)[i].args.VoiceId = "Enrique"

\* ----------------------------------------------------------------- C17
PersistAnswered(s) ==
  /\ turn[s].kind = "translate"
  /\ turn[s].pc = "putItem"
  /\ turn'[s].pc # "putItem"

PersistSucceeded(s) ==
  /\ PersistAnswered(s)
  /\ \E i \in 1..Len(turn'[s].log) :
       /\ turn'[s].log[i].ev = "return"
       /\ turn'[s].log[i].what = "putItem"
       /\ turn'[s].log[i].ok

\* C17: a translate turn adds a record exactly when its translate and its
\* persist call succeeded, whatever happens to synthesis and upload later;
\* the record has the turn's user, language, phrase and translation.
C17_RecordIffPersisted ==
  [][/\ \A s \in Sessions :
          PersistAnswered(s) =>
            IF PersistSucceeded(s)
            THEN /\ Len(table') = Len(table) + 1
                 /\ SubSeq(table', 1, Len(table)) = table
                 /\ LET r == table'[Len(table')]
                    IN /\ r.allqt_user = userId(s)
                       /\ r.allqt_language = turn[s].language
                       /\ r.allqt_sentence = turn[s].sentence
                       /\ r.allqt_translation = turn[s].translatedText
            ELSE table' = table
     /\ table' # table => \E s \in Sessions : PersistSucceeded(s)]_vars

C17_Witness ==
  \E s \in Sessions :
    /\ turn[s].kind = "translate" /\ turn[s].pc = "done"
    /\ Succeeded(s, "putItem")
    /\ Failed(s, "synthesizeSpeech")
    /\ \E i \in 1..Len(table) :
         /\ table[i].allqt_user = userId(s)
         /\ table[i].allqt_sentence = turn[s].sentence
         /\ table[i].allqt_translation = turn[s].translatedText

\* ----------------------------------------------------------------- C18
Moved(s) == turn[s].pc # turn'[s].pc \/ turn[s].kind # turn'[s].kind

\* C18: the table only grows at its end: no step changes or removes a
\* record, a translate turn adds at most one, quiz and fact turns add none.
C18_TableAppendOnly ==
  [][/\ Len(table') >= Len(table)
     /\ Len(table') <= Len(table) + 1
     /\ SubSeq(table', 1, Len(table)) = table
     /\ table' # table
          => \E s \in Sessions :
               /\ turn[s].kind = "translate" /\ Moved(s)
               /\ ~Succeeded(s, "putItem")
     /\ \A s \in Sessions :
          (Moved(s) /\ turn'[s].kind \in {"quiz", "answer", "fact"})
            => table' = table]_vars

C18_Witness ==
  \E s \in Sessions :
    /\ turn[s].kind = "quiz" /\ turn[s].pc = "done"
    /\ turn[s].randomItem # <<>>
    /\ \E i \in 1..Len(table) : table[i] = turn[s].randomItem[1]

\* ----------------------------------------------------------------- C20
\* C20: the pending record of a session changes only in a quiz turn of
\* that session: not in translate or fact turns, and not in a quiz turn of
\* another session.
C20_PendingChangedByOwnQuizOnly ==
  [][\A s \in Sessions :
       attributes'[s] # attributes[s]
         => /\ turn[s].kind = "quiz"
            /\ turn[s].pc = "scan"
            /\ turn'[s].pc # "scan"]_vars

C20_Witness ==
  \E s \in Sessions, o \in Sessions :
    /\ s # o
    /\ attributes[s] # <<>>
    /\ turn[s].kind = "fact"
    /\ turn[o].kind = "quiz"
    /\ Succeeded(o, "scan")

\* ----------------------------------------------------------------- C21
BetweenTurns(s) == turn[s].pc \in {"idle", "done"}

\* C21: between turns, a session holds a pending record only if a question
\* for that record was posed in the session: a Phase A that fails at
\* synthesis or upload, or finds no history, leaves no pending record.
C21_PendingOnlyIfPosed ==
  \A s \in Sessions :
    (BetweenTurns(s) /\ attributes[s] # <<>>)
      => attributes[s][1] \in turn[s].posed

====
